---- MODULE Spec2Model ----
(***************************************************************************)
(* A model of kj's exception machinery (c++/src/kj/exception.c++):         *)
(*   - the Exception value, its context chain, copy and stringification;   *)
(*   - the thread-local stack of ExceptionCallback overrides;              *)
(*   - the root callback's throw-or-log policy.                            *)
(*                                                                         *)
(* Text is modelled by TLA+ strings; str(...) is concatenation (\o).       *)
(***************************************************************************)
EXTENDS Integers, Sequences, FiniteSets, TLC

(***************************************************************************)
(* Bounds of the model.                                                    *)
(***************************************************************************)
MaxDepth == 2        \* overrides nested on one thread's call stack
NumObj == 3          \* distinct addresses at which an override may be built
MaxTrace == 2        \* return addresses a backtrace() call delivers
MaxWraps == 2        \* wrapContext calls applied to one exception

(***************************************************************************)
(* Program constants.                                                      *)
(***************************************************************************)
TraceCapacity == 16  \* void* trace[16]; backtrace(trace, 16)
StackWindow == 4096  \* offset < 4096 && offset > -4096

Threads == {"t1", "t2"}
Root == 0                            \* static RootExceptionCallback defaultCallback
Overrides == 1..NumObj               \* addresses of scoped ExceptionCallback objects
Callbacks == {Root} \cup Overrides
Null == 0 - 1                        \* nullptr
Uninit == 0 - 2                      \* a trace entry backtrace() did not fill

VARIABLES
  threadLocalCallback,  \* [Threads -> Callbacks \cup {Null}]: thread_local pointer
  next,                 \* [Callbacks -> Callbacks \cup {Null}]: the `next` reference of each
                        \*   live object (Null where no object exists)
  live,                 \* callbacks constructed and not yet destroyed
  stack,                \* [Threads -> Seq(Overrides)]: overrides in the thread's open scopes
  before,               \* [Threads -> Seq(Callbacks)]: getExceptionCallback() as seen just
                        \*   before each still-open construction (history)
  uncaught,             \* [Threads -> BOOLEAN]: std::uncaught_exception()
  noExceptions,         \* KJ_NO_EXCEPTIONS of this build
  aborted,              \* the process was ended by abort() / std::terminate()
  last,                 \* record of the most recent operation on the callback stack
  excs,                 \* [ExcSlots -> Exception record or NoExc]
  contexts,             \* [Nodes -> Context record or NoCtx]: heap of Context nodes
  wraps,                \* [ExcSlots -> Seq(frame)]: the wrapContext calls made on each
                        \*   exception, in call order (history)
  created,              \* the Exception a behaviour follows has been constructed
  rootLog               \* the call of the root's logMessage that is followed through
                        \*   its write loop

cbVars == <<threadLocalCallback, next, live, stack, before, uncaught, noExceptions,
            aborted, last>>
excVars == <<excs, contexts, wraps, created>>
vars == <<threadLocalCallback, next, live, stack, before, uncaught, noExceptions,
          aborted, last, excs, contexts, wraps, created, rootLog>>

(***************************************************************************)
(* Text plumbing (kj/string.h).                                            *)
(***************************************************************************)
RECURSIVE strArray(_, _)
strArray(arr, delim) ==
  IF Len(arr) = 0 THEN ""
  ELSE IF Len(arr) = 1 THEN Head(arr)
  ELSE Head(arr) \o delim \o strArray(Tail(arr), delim)

HexDigits == <<"0","1","2","3","4","5","6","7","8","9","a","b","c","d","e","f">>

RECURSIVE hex(_)
hex(n) == IF n < 16 THEN HexDigits[n + 1] ELSE hex(n \div 16) \o HexDigits[(n % 16) + 1]

strInt(n) == ToString(n)

(***************************************************************************)
(* Classification.                                                         *)
(***************************************************************************)
Nature ==
  {"PRECONDITION_VIOLATION", "INTERNAL_BUG", "OS_ERROR", "NETWORK_FAILURE", "UNCLASSIFIED"}
Durability == {"TEMPORARY", "PERMANENT"}

NatureOrdinal(n) ==
  CASE n = "PRECONDITION_VIOLATION" -> 0
    [] n = "INTERNAL_BUG" -> 1
    [] n = "OS_ERROR" -> 2
    [] n = "NETWORK_FAILURE" -> 3
    [] n = "UNCLASSIFIED" -> 4

DurabilityOrdinal(d) == IF d = "TEMPORARY" THEN 0 ELSE 1

NATURE_STRINGS ==
  <<"requirement not met", "bug in code", "error from OS", "network failure", "error">>

DURABILITY_STRINGS == <<"temporary", "permanent">>

StringifyNature(nature) == NATURE_STRINGS[NatureOrdinal(nature) + 1]

StringifyDurability(durability) == DURABILITY_STRINGS[DurabilityOrdinal(durability) + 1]

(***************************************************************************)
(* Exception value.                                                        *)
(***************************************************************************)
Descriptions == {"", "disk full"}

\* What backtrace() may deliver: nothing (capture unavailable) or the first
\* MaxTrace return addresses of the call stack
CallStack == <<10, 255, 4096, 11259375>>

Backtraces == {SubSeq(CallStack, 1, k) : k \in {0, MaxTrace}}

\* The frames wrapContext is called with
Frames ==
  {[file |-> "y.c", line |-> 20, description |-> "while flushing"],
   [file |-> "x.c", line |-> 7, description |-> ""]}

\* backtrace(trace, 16): fills the first Len(bt) entries, leaves the rest untouched
backtrace(bt) ==
  [i \in 1..TraceCapacity |-> IF i <= Len(bt) THEN bt[i] ELSE Uninit]

\* Exception::Exception(Nature, Durability, const char*, int, String)
NewException(nature, durability, file, line, description, bt) ==
  [file |-> file, line |-> line, nature |-> nature, durability |-> durability,
   description |-> description, trace |-> backtrace(bt), traceCount |-> Len(bt),
   context |-> Null]

getStackTrace(e) == [i \in 1..e.traceCount |-> e.trace[i]]

StackTraceText(e) == strArray([i \in 1..e.traceCount |-> hex(getStackTrace(e)[i])], " ")

(***************************************************************************)
(* Callback override stack.                                                *)
(***************************************************************************)
Offsets == {0 - StackWindow, 1 - StackWindow, 0, StackWindow - 1, StackWindow}

\* getExceptionCallback(): the value returned on thread t
getExceptionCallback(t) ==
  LET scoped == threadLocalCallback[t]
  IN  IF scoped # Null THEN scoped ELSE Root

\* static ExceptionCallback::RootExceptionCallback defaultCallback;
\* RootExceptionCallback(): ExceptionCallback(*this) {}  -- next = itself, nothing else
RootExceptionCallback(nx) == [nx EXCEPT ![Root] = Root]

\* A check that lets through an object exactly StackWindow bytes away
OnStackInclusive(offset) == offset <= StackWindow /\ offset >= 0 - StackWindow

\* KJ_ASSERT(offset < 4096 && offset > -4096, ...)
OnStack(offset) == offset < StackWindow /\ offset > 0 - StackWindow

\* A constructor that forgets to publish the new object
InstallNothing(t, o) == threadLocalCallback

\* A current-callback pointer that is one global instead of one per thread
InstallGlobal(t, o) == [u \in Threads |-> o]

\* threadLocalCallback = this;
Install(t, o) == [threadLocalCallback EXCEPT ![t] = o]

\* A destructor that clears the pointer instead of restoring next
UninstallToNull(t, o) ==
  IF next[o] # o THEN [threadLocalCallback EXCEPT ![t] = Null] ELSE threadLocalCallback

\* A destructor that leaves the pointer at the object being destroyed
UninstallNothing(t, o) == threadLocalCallback

\* if (&next != this) threadLocalCallback = &next;
Uninstall(t, o) ==
  IF next[o] # o THEN [threadLocalCallback EXCEPT ![t] = next[o]] ELSE threadLocalCallback

\* The callbacks whose handler runs when a call enters at c and every override
\* keeps the delegating default (next.handler(...)); the root does not delegate.
RECURSIVE Delegation(_, _, _)
Delegation(nx, c, fuel) ==
  IF c = Root \/ c = Null \/ fuel = 0 THEN <<c>>
  ELSE <<c>> \o Delegation(nx, nx[c], fuel - 1)

RECURSIVE RepeatChar(_, _)
RepeatChar(c, size) == IF size <= 0 THEN "" ELSE c \o RepeatChar(c, size - 1)

\* An indentation one character short
RootLogTextShort(contextDepth, text) ==
  IF contextDepth > 0 THEN RepeatChar("_", contextDepth - 1) \o text ELSE text

\* RootExceptionCallback::logMessage: the bytes handed to write(STDERR_FILENO, ...)
RootLogText(contextDepth, text) ==
  IF contextDepth > 0 THEN RepeatChar("_", contextDepth) \o text ELSE text

\* What a handler did: the values it raised, the logMessage calls issued by
\* logException (with the callbacks each call ran through) and the texts the
\* root's logMessage handed to the diagnostic stream.
NoOutcome == [thrown |-> <<>>, logCalls |-> <<>>, logVisits |-> <<>>, stderr |-> <<>>]

\* throw ExceptionImpl(mv(exception));
Throw(e) == [NoOutcome EXCEPT !.thrown = <<e>>]

\* ExceptionCallback::logMessage entered at callback c: delegates along next;
\* the root's override writes the (indented) text.
logMessage(nx, c, file, line, contextDepth, text) ==
  LET visits == Delegation(nx, c, NumObj + 1)
  IN  [logVisits |-> visits,
       stderr |-> IF visits[Len(visits)] = Root
                  THEN <<RootLogText(contextDepth, text)>> ELSE <<>>]

\* A log text that repeats the location already passed as file and line
logExceptionTextWithLocation(e) ==
  e.file \o ":" \o strInt(e.line) \o ": " \o StringifyNature(e.nature)
    \o (IF e.durability = "TEMPORARY" THEN " (temporary)" ELSE "")
    \o (IF e.description = "" THEN "" ELSE ": ") \o e.description
    \o "\nstack: " \o StackTraceText(e)

\* The text logException builds for the logMessage call
logExceptionText(e) ==
  StringifyNature(e.nature)
    \o (IF e.durability = "TEMPORARY" THEN " (temporary)" ELSE "")
    \o (IF e.description = "" THEN "" ELSE ": ") \o e.description
    \o "\nstack: " \o StackTraceText(e)

\* A logException that hands the text straight to the root's logMessage
logExceptionDirect(nx, t, e) ==
  LET text == logExceptionText(e)
      run == logMessage(nx, Root, e.file, e.line, 0, text)
  IN  [thrown |-> <<>>,
       logCalls |-> <<[target |-> Root, file |-> e.file, line |-> e.line,
                       contextDepth |-> 0, text |-> text]>>,
       logVisits |-> run.logVisits,
       stderr |-> run.stderr]

\* RootExceptionCallback::logException
logException(nx, t, e) ==
  LET target == getExceptionCallback(t)
      text == logExceptionText(e)
      run == logMessage(nx, target, e.file, e.line, 0, text)
  IN  [thrown |-> <<>>,
       logCalls |-> <<[target |-> target, file |-> e.file, line |-> e.line,
                       contextDepth |-> 0, text |-> text]>>,
       logVisits |-> run.logVisits,
       stderr |-> run.stderr]

\* An onRecoverableException that does not look at std::uncaught_exception()
RootOnRecoverableAlwaysThrow(nx, t, e) ==
  IF noExceptions THEN logException(nx, t, e) ELSE Throw(e)

\* An onRecoverableException compiled without the KJ_NO_EXCEPTIONS branch
RootOnRecoverableIgnoringBuild(nx, t, e) ==
  IF uncaught[t] THEN logException(nx, t, e) ELSE Throw(e)

\* RootExceptionCallback::onRecoverableException
RootOnRecoverableException(nx, t, e) ==
  IF noExceptions THEN logException(nx, t, e)
  ELSE IF uncaught[t] THEN logException(nx, t, e)
  ELSE Throw(e)

\* An onFatalException that, like the recoverable case, logs while unwinding
RootOnFatalLogWhenUnwinding(nx, t, e) ==
  IF noExceptions THEN logException(nx, t, e)
  ELSE IF uncaught[t] THEN logException(nx, t, e)
  ELSE Throw(e)

\* RootExceptionCallback::onFatalException
RootOnFatalException(nx, t, e) ==
  IF noExceptions THEN logException(nx, t, e)
  ELSE Throw(e)

\* A dispatch that goes to the root without passing through the overrides
DispatchAtRoot(nx, t, op, e) ==
  [entry |-> Root, visits |-> <<Root>>,
   out |-> IF op = "recoverable" THEN RootOnRecoverableException(nx, t, e)
           ELSE RootOnFatalException(nx, t, e)]

\* ExceptionCallback::onRecoverableException / onFatalException entered at the
\* thread's current callback: delegate along next until the root's override runs.
Dispatch(nx, t, op, e) ==
  LET entry == getExceptionCallback(t)
      visits == Delegation(nx, entry, NumObj + 1)
      out == IF visits[Len(visits)] # Root THEN NoOutcome
             ELSE IF op = "recoverable" THEN RootOnRecoverableException(nx, t, e)
             ELSE RootOnFatalException(nx, t, e)
  IN  [entry |-> entry, visits |-> visits, out |-> out]

NoExc == [nature |-> "none"]

NoOp ==
  [op |-> "none", thread |-> "t1", obj |-> Null, offset |-> 0, installed |-> FALSE,
   mode |-> "none", restored |-> Null, hadInner |-> FALSE, current |-> Null,
   exc |-> NoExc, unwinding |-> FALSE, contextDepth |-> 0, text |-> "",
   entry |-> Null, visits |-> <<>>, out |-> NoOutcome]

\* The exceptions handed to the callbacks
RaisedExceptions ==
  {NewException("OS_ERROR", "PERMANENT", "x.c", 10, "disk full", <<10, 255>>),
   NewException("NETWORK_FAILURE", "TEMPORARY", "y.c", 20, "", <<>>)}

\* The fault KJ_ASSERT reports when its condition is false
AssertFault ==
  NewException("INTERNAL_BUG", "PERMANENT", "exception.c++", 192,
               "ExceptionCallback must be allocated on the stack.", <<>>)

\* KJ_ASSERT on a false condition: the fault goes to the current callback's
\* onFatalException; if that returns instead of raising, the process aborts.
\* Either way control does not continue past the assertion.
AssertFailed(nx, t) == Dispatch(nx, t, "fatal", AssertFault)

Push(hist, cb) ==
  Append([i \in 1..Len(hist) |-> [hist[i] EXCEPT !.inner = TRUE]],
         [cb |-> cb, inner |-> FALSE])

\* A throw leaves the thread unwinding; a throw while already unwinding ends the
\* process (std::terminate) unless it is caught before leaving the destructor.
AfterRaise(t, threw) ==
  /\ uncaught' = [uncaught EXCEPT ![t] = @ \/ threw]
  /\ aborted' \in (IF threw /\ uncaught[t] THEN BOOLEAN ELSE {FALSE})

\* ExceptionCallback::ExceptionCallback(), for an object at address o whose
\* distance from the constructor's stackVar is offset
Construct(t, o, offset) ==
  /\ ~aborted
  /\ o \in Overrides \ live
  /\ Len(stack[t]) < MaxDepth
  /\ LET cur == getExceptionCallback(t)
         nx == [RootExceptionCallback(next) EXCEPT ![o] = cur]
     IN  /\ IF OnStack(offset)
            THEN /\ next' = nx
                 /\ threadLocalCallback' = Install(t, o)
                 /\ live' = live \cup {Root, o}
                 /\ stack' = [stack EXCEPT ![t] = Append(@, o)]
                 /\ before' = [before EXCEPT ![t] = Push(@, cur)]
                 /\ last' = [NoOp EXCEPT !.op = "construct", !.thread = t, !.obj = o,
                                         !.offset = offset, !.installed = TRUE,
                                         !.current = cur]
                 /\ UNCHANGED <<uncaught, aborted>>
            ELSE LET d == AssertFailed(nx, t)
                     threw == d.out.thrown # <<>>
                 IN  /\ next' = RootExceptionCallback(next)
                     /\ live' = live \cup {Root}
                     /\ last' = [NoOp EXCEPT !.op = "construct", !.thread = t, !.obj = o,
                                             !.offset = offset, !.installed = FALSE,
                                             !.current = cur, !.exc = AssertFault,
                                             !.unwinding = uncaught[t],
                                             !.entry = d.entry, !.visits = d.visits,
                                             !.out = d.out]
                     /\ uncaught' = [uncaught EXCEPT ![t] = @ \/ threw]
                     /\ aborted' \in (IF ~threw THEN {TRUE}
                                      ELSE IF uncaught[t] THEN BOOLEAN ELSE {FALSE})
                     /\ UNCHANGED <<threadLocalCallback, stack, before>>
  /\ UNCHANGED <<noExceptions, excVars, rootLog>>

\* ExceptionCallback::~ExceptionCallback() of the innermost open override of
\* thread t, at normal scope exit or while the stack unwinds
Destroy(t) ==
  /\ ~aborted
  /\ stack[t] # <<>>
  /\ LET o == stack[t][Len(stack[t])]
         h == before[t][Len(before[t])]
     IN  /\ threadLocalCallback' = Uninstall(t, o)
         /\ next' = [next EXCEPT ![o] = Null]
         /\ live' = live \ {o}
         /\ stack' = [stack EXCEPT ![t] = SubSeq(@, 1, Len(@) - 1)]
         /\ before' = [before EXCEPT ![t] = SubSeq(@, 1, Len(@) - 1)]
         /\ last' = [NoOp EXCEPT !.op = "destroy", !.thread = t, !.obj = o,
                                 !.mode = IF uncaught[t] THEN "unwind" ELSE "normal",
                                 !.restored = h.cb, !.hadInner = h.inner]
  /\ UNCHANGED <<uncaught, noExceptions, aborted, excVars, rootLog>>

Handle(t, op, e) ==
  /\ ~aborted
  /\ LET nx == RootExceptionCallback(next)
         d == Dispatch(nx, t, op, e)
     IN  /\ next' = nx
         /\ live' = live \cup {Root}
         /\ last' = [NoOp EXCEPT !.op = op, !.thread = t, !.exc = e,
                                 !.unwinding = uncaught[t],
                                 !.entry = d.entry, !.visits = d.visits, !.out = d.out]
         /\ AfterRaise(t, d.out.thrown # <<>>)
  /\ UNCHANGED <<threadLocalCallback, stack, before, noExceptions, excVars, rootLog>>

\* getExceptionCallback().onRecoverableException(mv(e)) on thread t
OnRecoverableException(t, e) == Handle(t, "recoverable", e)

\* getExceptionCallback().onFatalException(mv(e)) on thread t
OnFatalException(t, e) == Handle(t, "fatal", e)

\* getExceptionCallback().logMessage(file, line, contextDepth, text) on thread t,
\* taken as one step
LogMessage(t, file, line, contextDepth, text) ==
  /\ ~aborted
  /\ LET nx == RootExceptionCallback(next)
         entry == getExceptionCallback(t)
         run == logMessage(nx, entry, file, line, contextDepth, text)
     IN  /\ next' = nx
         /\ live' = live \cup {Root}
         /\ last' = [NoOp EXCEPT !.op = "log", !.thread = t,
                                 !.contextDepth = contextDepth, !.text = text,
                                 !.unwinding = uncaught[t],
                                 !.entry = entry, !.visits = run.logVisits,
                                 !.out = [NoOutcome EXCEPT !.logVisits = run.logVisits,
                                                           !.stderr = run.stderr]]
  /\ UNCHANGED <<threadLocalCallback, stack, before, uncaught, noExceptions, aborted,
                 excVars, rootLog>>

\* A handler on thread t catches the exception in flight
Catch(t) ==
  /\ ~aborted
  /\ uncaught[t]
  /\ uncaught' = [uncaught EXCEPT ![t] = FALSE]
  /\ UNCHANGED <<threadLocalCallback, next, live, stack, before, noExceptions, aborted,
                 last, excVars, rootLog>>


(***************************************************************************)
(* Exception: context chain, copy, stringification.                        *)
(***************************************************************************)
ExcSlots == {"original", "copy"}
Nodes == 1..(2 * MaxWraps)

NoCtx == [file |-> "<freed>"]

\* heap<Context>(...): the address of the new node
Alloc(h) == CHOOSE n \in Nodes : h[n] = NoCtx /\ \A m \in Nodes : h[m] = NoCtx => n <= m

FreeNodes(h) == {n \in Nodes : h[n] = NoCtx}

\* The nodes of the chain that starts at ptr, head first
RECURSIVE Chain(_, _, _)
Chain(h, ptr, fuel) ==
  IF ptr = Null \/ fuel = 0 THEN <<>>
  ELSE IF h[ptr] = NoCtx THEN <<ptr>>
  ELSE <<ptr>> \o Chain(h, h[ptr].next, fuel - 1)

getContext(h, e) == Chain(h, e.context, 2 * MaxWraps)

\* A wrapContext that does not take over the existing chain
wrapContextDroppingOld(h, e, file, line, description) ==
  LET n == Alloc(h)
  IN  [heap |-> [h EXCEPT ![n] = [file |-> file, line |-> line,
                                  description |-> description, next |-> Null]],
       exc |-> [e EXCEPT !.context = n]]

\* Exception::wrapContext: context = heap<Context>(file, line, mv(description), mv(context));
wrapContext(h, e, file, line, description) ==
  LET n == Alloc(h)
  IN  [heap |-> [h EXCEPT ![n] = [file |-> file, line |-> line,
                                  description |-> description, next |-> e.context]],
       exc |-> [e EXCEPT !.context = n]]

\* Exception::Context::Context(const Context&), reached through heap(**c):
\* allocates the copy of node src, then copies src's next into it
RECURSIVE CopyContext(_, _, _)
CopyContext(h, src, fuel) ==
  IF src = Null \/ fuel = 0 THEN [heap |-> h, ptr |-> Null]
  ELSE LET n == Alloc(h)
           h1 == [h EXCEPT ![n] = [file |-> h[src].file, line |-> h[src].line,
                                   description |-> "" \o h[src].description,
                                   next |-> Null]]
           rest == CopyContext(h1, h[src].next, fuel - 1)
       IN  [heap |-> [rest.heap EXCEPT ![n].next = rest.ptr], ptr |-> n]

\* memcpy(trace, other.trace, sizeof(trace[0]) * traceCount)
CopyTrace(other) ==
  [i \in 1..TraceCapacity |-> IF i <= other.traceCount THEN other.trace[i] ELSE Uninit]

\* A copy constructor without the KJ_IF_MAYBE(c, other.context) block
CopyExceptionWithoutContext(h, other) ==
  [heap |-> h,
   exc |-> [file |-> other.file, line |-> other.line, nature |-> other.nature,
            durability |-> other.durability, description |-> "" \o other.description,
            trace |-> CopyTrace(other), traceCount |-> other.traceCount,
            context |-> Null]]

\* Exception::Exception(const Exception& other)
CopyException(h, other) ==
  LET c == CopyContext(h, other.context, 2 * MaxWraps)
  IN  [heap |-> c.heap,
       exc |-> [file |-> other.file, line |-> other.line, nature |-> other.nature,
                durability |-> other.durability, description |-> "" \o other.description,
                trace |-> CopyTrace(other), traceCount |-> other.traceCount,
                context |-> c.ptr]]

\* Exception::~Exception: the Own<Context> chain is released with it
ReleaseContext(h, e) ==
  LET owned == {getContext(h, e)[i] : i \in 1..Len(getContext(h, e))}
  IN  [n \in Nodes |-> IF n \in owned THEN NoCtx ELSE h[n]]

\* str(c->file, ":", c->line, ": context: ", c->description, "\n")
ContextText(c) ==
  IF c = NoCtx THEN "<freed>"
  ELSE c.file \o ":" \o strInt(c.line) \o ": context: " \o c.description \o "\n"

\* The second loop of KJ_STRINGIFY(const Exception&): contextText[], in chain order
contextText(h, e) ==
  LET chain == getContext(h, e)
  IN  [i \in 1..Len(chain) |-> ContextText(h[chain[i]])]

\* The exception's own line with the " (temporary)" test turned around
OwnTextPermanentMarked(e) ==
  e.file \o ":" \o strInt(e.line) \o ": " \o StringifyNature(e.nature)
    \o (IF e.durability = "PERMANENT" THEN " (temporary)" ELSE "")
    \o (IF e.description = "" THEN "" ELSE ": ") \o e.description
    \o "\nstack: " \o StackTraceText(e)

\* The arguments of the final str(...) after the context text
OwnText(e) ==
  e.file \o ":" \o strInt(e.line) \o ": " \o StringifyNature(e.nature)
    \o (IF e.durability = "TEMPORARY" THEN " (temporary)" ELSE "")
    \o (IF e.description = "" THEN "" ELSE ": ") \o e.description
    \o "\nstack: " \o StackTraceText(e)

\* KJ_STRINGIFY(const Exception& e)
StringifyException(h, e) == strArray(contextText(h, e), "") \o OwnText(e)

\* Exception(nature, durability, file, line, description) into slot x: the one
\* exception a behaviour follows, together with its copies
ExcConstruct(x, nature, durability, file, line, description, bt) ==
  /\ ~created
  /\ excs[x] = NoExc
  /\ excs' = [excs EXCEPT ![x] = NewException(nature, durability, file, line, description, bt)]
  /\ wraps' = [wraps EXCEPT ![x] = <<>>]
  /\ created' = TRUE
  /\ UNCHANGED <<contexts, cbVars, rootLog>>

\* excs[x].wrapContext(f.file, f.line, f.description)
ExcWrapContext(x, f) ==
  /\ excs[x] # NoExc
  /\ Len(wraps[x]) < MaxWraps
  /\ FreeNodes(contexts) # {}
  /\ LET r == wrapContext(contexts, excs[x], f.file, f.line, f.description)
     IN  /\ contexts' = r.heap
         /\ excs' = [excs EXCEPT ![x] = r.exc]
  /\ wraps' = [wraps EXCEPT ![x] = Append(@, f)]
  /\ UNCHANGED <<created, cbVars, rootLog>>

\* Exception excs[dst](excs[src])
ExcCopy(src, dst) ==
  /\ excs[src] # NoExc
  /\ excs[dst] = NoExc
  /\ Cardinality(FreeNodes(contexts)) >= Len(getContext(contexts, excs[src]))
  /\ LET r == CopyException(contexts, excs[src])
     IN  /\ contexts' = r.heap
         /\ excs' = [excs EXCEPT ![dst] = r.exc]
  /\ wraps' = [wraps EXCEPT ![dst] = wraps[src]]
  /\ UNCHANGED <<created, cbVars, rootLog>>

\* excs[x].~Exception()
ExcDestroy(x) ==
  /\ excs[x] # NoExc
  /\ contexts' = ReleaseContext(contexts, excs[x])
  /\ excs' = [excs EXCEPT ![x] = NoExc]
  /\ wraps' = [wraps EXCEPT ![x] = <<>>]
  /\ UNCHANGED <<created, cbVars, rootLog>>

(***************************************************************************)
(* The write loop of the root's logMessage.                                *)
(***************************************************************************)
LogTexts == {"", "hello"}
LogDepths == {0 - 1, 0, 3}

\* ssize_t n = write(STDERR_FILENO, buf, size): an error (-1), nothing (0), or
\* a count of accepted bytes between 1 and size
WriteResults(buf) == {0 - 1, 0} \cup 1..Len(buf)

NoLog ==
  [pc |-> "idle", thread |-> "t1", contextDepth |-> 0, arg |-> "", visits |-> <<>>,
   text |-> "", textPtr |-> "", writes |-> 0, accepted |-> "",
   lastBuf |-> "", lastN |-> 0, refused |-> FALSE]

\* while (text != nullptr)
LoopCondition(text, textPtr) == text # ""

\* A test that takes only an error for a failure
WriteFailedOnlyOnError(n) == n < 0

\* if (n <= 0) return;
WriteFailed(n) == n <= 0

\* A slice that starts one byte too far
sliceSkippingOne(textPtr, n) == SubSeq(textPtr, n + 2, Len(textPtr))

\* A loop that forgets to advance textPtr
sliceNothing(textPtr, n) == textPtr

\* textPtr = textPtr.slice(n);
slice(textPtr, n) == SubSeq(textPtr, n + 1, Len(textPtr))

\* getExceptionCallback().logMessage(file, line, contextDepth, text) on thread t,
\* up to the first test of the root's loop condition: the call runs through the
\* open overrides to the root, which indents the text and points textPtr at it
LogStart(t, contextDepth, text) ==
  /\ ~aborted
  /\ rootLog.pc # "loop"
  /\ LET nx == RootExceptionCallback(next)
         visits == Delegation(nx, getExceptionCallback(t), NumObj + 1)
         indented == RootLogText(contextDepth, text)
     IN  /\ next' = nx
         /\ live' = live \cup {Root}
         /\ rootLog' =
              IF visits[Len(visits)] # Root
              THEN [NoLog EXCEPT !.pc = "returned", !.thread = t, !.arg = text,
                                 !.contextDepth = contextDepth, !.visits = visits]
              ELSE [NoLog EXCEPT !.pc = IF LoopCondition(indented, indented)
                                        THEN "loop" ELSE "returned",
                                 !.thread = t, !.arg = text,
                                 !.contextDepth = contextDepth, !.visits = visits,
                                 !.text = indented, !.textPtr = indented]
  /\ UNCHANGED <<threadLocalCallback, stack, before, uncaught, noExceptions, aborted,
                 last, excVars>>

\* One pass through the loop body: a write call that returns n, the test of n,
\* the slice and the next test of the loop condition
LogWrite(n) ==
  /\ ~aborted
  /\ rootLog.pc = "loop"
  /\ n \in WriteResults(rootLog.textPtr)
  /\ LET rest == slice(rootLog.textPtr, n)
         made == [rootLog EXCEPT !.writes = @ + 1, !.lastBuf = rootLog.textPtr,
                                 !.lastN = n]
     IN  rootLog' =
           IF WriteFailed(n)
           THEN [made EXCEPT !.pc = "returned",
                             !.refused = @ \/ rootLog.textPtr # ""]
           ELSE [made EXCEPT !.textPtr = rest,
                             !.accepted = @ \o SubSeq(rootLog.textPtr, 1, n),
                             !.pc = IF LoopCondition(rootLog.text, rest)
                                    THEN "loop" ELSE "returned"]
  /\ UNCHANGED <<cbVars, excVars>>

\* Every result write can give for some remaining buffer of some message
WriteRange == UNION {WriteResults(RootLogText(d, text)) : d \in LogDepths, text \in LogTexts}

\* The logging thread opens its next nested override, outside logMessage
LogConstruct ==
  /\ rootLog.pc # "loop"
  /\ Construct("t1", Len(stack["t1"]) + 1, 0)

\* The logging thread leaves the scope of its innermost override, outside logMessage
LogDestroy ==
  /\ rootLog.pc # "loop"
  /\ Destroy("t1")

Init ==
  /\ threadLocalCallback = [t \in Threads |-> Null]
  /\ next = [c \in Callbacks |-> Null]
  /\ live = {}
  /\ stack = [t \in Threads |-> <<>>]
  /\ before = [t \in Threads |-> <<>>]
  /\ uncaught = [t \in Threads |-> FALSE]
  /\ noExceptions \in BOOLEAN
  /\ aborted = FALSE
  /\ last = NoOp
  /\ excs = [x \in ExcSlots |-> NoExc]
  /\ contexts = [n \in Nodes |-> NoCtx]
  /\ wraps = [x \in ExcSlots |-> <<>>]
  /\ created = FALSE
  /\ rootLog = NoLog

Next ==
  \/ \E t \in Threads, o \in Overrides, offset \in Offsets : Construct(t, o, offset)
  \/ \E t \in Threads : Destroy(t)
  \/ \E t \in Threads, e \in RaisedExceptions : OnRecoverableException(t, e)
  \/ \E t \in Threads, e \in RaisedExceptions : OnFatalException(t, e)
  \/ \E t \in Threads : Catch(t)

Spec == Init /\ [][Next]_vars

NextExc ==
  \/ \E n \in Nature, d \in Durability, desc \in Descriptions, bt \in Backtraces :
       ExcConstruct("original", n, d, "x.c", 10, desc, bt)
  \/ \E x \in ExcSlots, f \in Frames : ExcWrapContext(x, f)
  \/ ExcCopy("original", "copy")
  \/ \E x \in ExcSlots : ExcDestroy(x)

\* The Exception value is the same in every build; a build with exceptions
\* is followed.
InitExc == Init /\ ~noExceptions

SpecExc == InitExc /\ [][NextExc]_vars

\* getExceptionCallback().onRecoverableException / onFatalException on thread t
\* with the exception held in slot x
Report(t, op, x) ==
  /\ excs[x] # NoExc
  /\ Handle(t, op, excs[x])

\* One thread's override stack and the exception it builds, wraps in context
\* frames and hands to the current callback, next to plain logMessage calls
NextReport ==
  \/ Construct("t1", Len(stack["t1"]) + 1, 0)
  \/ Destroy("t1")
  \/ \E d \in Durability, desc \in Descriptions :
       ExcConstruct("original", "OS_ERROR", d, "x.c", 10, desc, SubSeq(CallStack, 1, MaxTrace))
  \/ \E f \in Frames : ExcWrapContext("original", f)
  \/ \E op \in {"recoverable", "fatal"} : Report("t1", op, "original")
  \/ \E d \in {0, 2} : LogMessage("t1", "z.c", 30, d, "note")
  \/ Catch("t1")

SpecReport == Init /\ [][NextReport]_vars

\* One thread's override stack, each nested override at the next address of the
\* thread's call stack, and the calls of logMessage made on that thread
NextLog ==
  \/ LogConstruct
  \/ LogDestroy
  \/ \E d \in LogDepths, text \in LogTexts : LogStart("t1", d, text)
  \/ \E n \in WriteRange : LogWrite(n)

SpecLog == InitExc /\ [][NextLog]_vars

\* The thread inside logMessage keeps running: a pending pass through the loop
\* body is eventually made.
SpecLogFair == SpecLog /\ WF_vars(\E n \in WriteRange : LogWrite(n))

(***************************************************************************)
(* Properties of the callback override stack and the root policy.          *)
(***************************************************************************)
Top(s) == s[Len(s)]

Reverse(s) == [i \in 1..Len(s) |-> s[Len(s) + 1 - i]]

Raised == Len(last.out.thrown)

Logged == Len(last.out.logCalls)

\* C1: when an override is destroyed (at scope exit or during unwinding), and
\* with it every override that was nested inside it has been destroyed before,
\* getExceptionCallback() on that thread returns the callback it returned just
\* before that override was constructed.
C1_RestoredAfterDestroy ==
  /\ \A t \in Threads : Len(before[t]) = Len(stack[t])
  /\ last.op = "destroy" => getExceptionCallback(last.thread) = last.restored

C1_Witness ==
  /\ last.op = "destroy" /\ last.mode = "unwind" /\ last.hadInner
  /\ stack[last.thread] = <<>>
  /\ getExceptionCallback(last.thread) = Root

\* C2: getExceptionCallback() returns the innermost override still open on the
\* thread, and the root when the thread has none.
C2_CurrentIsInnermost ==
  \A t \in Threads :
    getExceptionCallback(t) = IF stack[t] = <<>> THEN Root ELSE Top(stack[t])

C2_Witness ==
  \E t, u \in Threads :
    /\ Len(stack[t]) = MaxDepth
    /\ stack[u] = <<>> /\ threadLocalCallback[u] = Root

\* C3: the root's onRecoverableException raises or logs, exactly one of the
\* two; it raises exactly when exceptions are enabled and nothing is unwinding.
C3_RecoverableRaiseXorLog ==
  last.op = "recoverable" =>
    /\ Raised + Logged = 1
    /\ Raised = 1 <=> (~noExceptions /\ ~last.unwinding)
    /\ Logged = 0 => last.out.stderr = <<>>

C3_Witness ==
  /\ last.op = "recoverable" /\ ~noExceptions /\ last.unwinding
  /\ Logged = 1 /\ Raised = 0

\* C4: the root's onFatalException raises whenever exceptions are enabled, also
\* while unwinding, and then logs nothing; with exceptions disabled it logs.
C4_FatalAlwaysRaises ==
  last.op = "fatal" =>
    IF noExceptions
    THEN Raised = 0 /\ Logged = 1
    ELSE /\ Raised = 1 /\ last.out.thrown[1] = last.exc
         /\ Logged = 0 /\ last.out.logVisits = <<>> /\ last.out.stderr = <<>>

C4_Witness ==
  last.op = "fatal" /\ ~noExceptions /\ last.unwinding /\ Raised = 1 /\ Logged = 0

\* C5: in a build without exceptions a recoverable exception produces exactly
\* one logMessage call and no raised value, whatever overrides are installed.
C5_NoExceptionsLogsOnce ==
  (noExceptions /\ last.op = "recoverable") =>
    /\ Len(last.out.logCalls) = 1
    /\ last.out.thrown = <<>>
    /\ Len(last.out.stderr) = 1

C5_Witness ==
  /\ noExceptions /\ last.op = "recoverable"
  /\ Len(stack[last.thread]) = MaxDepth
  /\ Len(last.out.logCalls) = 1

\* C6: the logMessage call of logException has contextDepth 0 and enters at the
\* thread's current callback: every open override's logMessage runs, innermost
\* first, and the root's logMessage runs last.
C6_LogReentersAtTop ==
  last.out.logCalls # <<>> =>
    /\ Len(last.out.logCalls) = 1
    /\ last.out.logCalls[1].target = getExceptionCallback(last.thread)
    /\ last.out.logCalls[1].contextDepth = 0
    /\ last.out.logVisits = Reverse(stack[last.thread]) \o <<Root>>

C6_Witness ==
  /\ last.out.logCalls # <<>>
  /\ Len(stack[last.thread]) = MaxDepth
  /\ Len(last.out.logVisits) = MaxDepth + 1

\* C7: an override 4096 bytes or more from the constructor's stack variable
\* fails the assertion and is not installed, the current callback staying what
\* it was; constructing the root involves no check and does not make it any
\* thread's current pointer.
C7_OffStackRejected ==
  /\ [](( /\ last.op = "construct"
          /\ (last.offset >= StackWindow \/ last.offset <= 0 - StackWindow) )
        => /\ ~last.installed
           /\ last.exc = AssertFault
           /\ (last.out.thrown # <<>> \/ aborted)
           /\ last.obj \notin live
           /\ \A i \in 1..Len(stack[last.thread]) : stack[last.thread][i] # last.obj
           /\ getExceptionCallback(last.thread) = last.current)
  /\ [][(Root \notin live /\ Root \in live')
        => /\ next'[Root] = Root
           /\ \A t \in Threads : threadLocalCallback'[t] # Root]_vars

C7_Witness ==
  /\ last.op = "construct" /\ last.offset = StackWindow /\ ~last.installed
  /\ stack[last.thread] # <<>>
  /\ Root \in live

(***************************************************************************)
(* Properties of the Exception value and its stringification.              *)
(***************************************************************************)
Live(x) == excs[x] # NoExc

FrameOf(c) == [file |-> c.file, line |-> c.line, description |-> c.description]

\* The frames of e's context chain, head first
ChainFrames(h, e) ==
  LET chain == getContext(h, e)
  IN  [i \in 1..Len(chain) |-> IF h[chain[i]] = NoCtx THEN NoCtx ELSE FrameOf(h[chain[i]])]

\* "<file>:<line>: context: <description>\n"
FrameLine(f) == f.file \o ":" \o ToString(f.line) \o ": context: " \o f.description \o "\n"

FrameLines(fs) == strArray([i \in 1..Len(fs) |-> FrameLine(fs[i])], "")

\* C8: the context chain holds the frames of the wrapContext calls, the most
\* recent call first and every frame as it was passed; the rendering is the
\* lines of these frames in that order, followed by the exception's own line.
C8_WrapContextPrepends ==
  \A x \in ExcSlots :
    Live(x) =>
      /\ ChainFrames(contexts, excs[x]) = Reverse(wraps[x])
      /\ StringifyException(contexts, excs[x])
           = FrameLines(Reverse(wraps[x])) \o OwnText(excs[x])

C8_Witness ==
  \E x \in ExcSlots :
    /\ Live(x)
    /\ wraps[x] = <<[file |-> "y.c", line |-> 20, description |-> "while flushing"],
                    [file |-> "x.c", line |-> 7, description |-> ""]>>
    /\ excs[x].nature = "OS_ERROR" /\ excs[x].durability = "PERMANENT"
    /\ excs[x].description = "disk full" /\ excs[x].traceCount = 2
    /\ StringifyException(contexts, excs[x])
         = "x.c:7: context: \ny.c:20: context: while flushing\n"
             \o "x.c:10: error from OS: disk full\nstack: a ff"

SameValue(a, b) ==
  /\ a.file = b.file /\ a.line = b.line
  /\ a.nature = b.nature /\ a.durability = b.durability
  /\ a.description = b.description
  /\ a.traceCount = b.traceCount
  /\ \A i \in 1..a.traceCount : a.trace[i] = b.trace[i]

\* C9: a copy has the fields, the trace entries up to the count and the context
\* frames of the original, in the same order, and renders to the same text; a
\* wrapContext on one of the two leaves the other's chain and rendering as
\* they were.
C9_CopyEqualAndIndependent ==
  [][\A x, y \in ExcSlots :
       /\ (x # y /\ Live(x) /\ ~Live(y) /\ Live(y)')
            => /\ SameValue(excs'[y], excs'[x])
               /\ ChainFrames(contexts', excs'[y]) = ChainFrames(contexts', excs'[x])
               /\ StringifyException(contexts', excs'[y])
                    = StringifyException(contexts', excs'[x])
               /\ excs'[x] = excs[x]
               /\ StringifyException(contexts', excs'[x])
                    = StringifyException(contexts, excs[x])
       /\ (x # y /\ Live(x) /\ Live(y) /\ Live(y)' /\ wraps'[y] # wraps[y])
            => /\ Live(x)'
               /\ excs'[x] = excs[x]
               /\ ChainFrames(contexts', excs'[x]) = ChainFrames(contexts, excs[x])
               /\ StringifyException(contexts', excs'[x])
                    = StringifyException(contexts, excs[x])]_vars

C9_Witness ==
  /\ Live("original") /\ Live("copy")
  /\ Len(wraps["original"]) = 1
  /\ Len(wraps["copy"]) = 2 /\ wraps["copy"][1] = wraps["original"][1]
  /\ excs["copy"].traceCount = 2
  /\ SameValue(excs["copy"], excs["original"])
  /\ StringifyException(contexts, excs["copy"])
       # StringifyException(contexts, excs["original"])

NatureText(nature) ==
  CASE nature = "PRECONDITION_VIOLATION" -> "requirement not met"
    [] nature = "INTERNAL_BUG" -> "bug in code"
    [] nature = "OS_ERROR" -> "error from OS"
    [] nature = "NETWORK_FAILURE" -> "network failure"
    [] nature = "UNCLASSIFIED" -> "error"

\* C10: what the rendering has after the context lines is
\* "<file>:<line>: <nature-text>", then " (temporary)" exactly for TEMPORARY,
\* then ": <description>" exactly for a non-empty description, then "\nstack: "
\* and the captured addresses separated by blanks.
C10_OwnLineFormat ==
  \A x \in ExcSlots :
    Live(x) =>
      LET e == excs[x]
          text == StringifyException(contexts, e)
          skip == Len(FrameLines(ChainFrames(contexts, e)))
      IN  SubSeq(text, skip + 1, Len(text))
            = e.file \o ":" \o ToString(e.line) \o ": " \o NatureText(e.nature)
                \o (IF e.durability = "TEMPORARY" THEN " (temporary)" ELSE "")
                \o (IF e.description # "" THEN ": " \o e.description ELSE "")
                \o "\nstack: "
                \o strArray([i \in 1..e.traceCount |-> hex(e.trace[i])], " ")

C10_Witness ==
  \E x \in ExcSlots :
    /\ Live(x)
    /\ excs[x].nature = "NETWORK_FAILURE" /\ excs[x].durability = "TEMPORARY"
    /\ excs[x].description = ""
    /\ wraps[x] = <<>>
    /\ StringifyException(contexts, excs[x])
         = "x.c:10: network failure (temporary)\nstack: a ff"

(***************************************************************************)
(* Properties of the root's logMessage.                                    *)
(***************************************************************************)
Underscores == "________________"

Indent(contextDepth) == IF contextDepth > 0 THEN SubSeq(Underscores, 1, contextDepth) ELSE ""

IsPrefix(p, s) == Len(p) <= Len(s) /\ SubSeq(s, 1, Len(p)) = p

\* C11: what the root's logMessage offers to the stream is the text behind
\* contextDepth underscores when contextDepth > 0 and the text itself otherwise;
\* the bytes the stream accepts are a prefix of exactly that.
C11_IndentedTextSent ==
  (rootLog.pc # "idle" /\ rootLog.visits[Len(rootLog.visits)] = Root) =>
    /\ rootLog.text = Indent(rootLog.contextDepth) \o rootLog.arg
    /\ rootLog.contextDepth <= 0 => rootLog.text = rootLog.arg
    /\ IsPrefix(rootLog.accepted, Indent(rootLog.contextDepth) \o rootLog.arg)
    /\ (rootLog.writes = 1 /\ rootLog.lastN <= 0)
         => rootLog.lastBuf = Indent(rootLog.contextDepth) \o rootLog.arg

C11_Witness ==
  /\ rootLog.pc = "returned"
  /\ rootLog.contextDepth = 3 /\ rootLog.arg = "hello"
  /\ rootLog.accepted = "___hello"

\* C14: when no write of a non-empty buffer is refused, the bytes accepted by
\* the successive writes add up to the indented text; every write is offered
\* the text from the first byte not yet accepted on.
C14_WholeMessageOnce ==
  /\ rootLog.accepted \o rootLog.textPtr = rootLog.text
  /\ rootLog.writes > 0 =>
       rootLog.lastBuf
         = SubSeq(rootLog.text,
                  Len(rootLog.accepted) - (IF rootLog.lastN > 0 THEN rootLog.lastN ELSE 0) + 1,
                  Len(rootLog.text))
  /\ (rootLog.pc = "returned" /\ ~rootLog.refused) => rootLog.accepted = rootLog.text

C14_Witness ==
  /\ rootLog.pc = "returned" /\ ~rootLog.refused
  /\ rootLog.text = "___hello" /\ rootLog.accepted = "___hello"
  /\ rootLog.writes >= 4

\* C15: no write call is issued once every byte of the message has been
\* accepted; write is never called with an empty buffer.
C15_NoWriteOnceComplete ==
  rootLog.writes > 0 => rootLog.lastBuf # ""

\* C16: a write that returns a non-positive result ends the call: the loop is
\* left, no further write is made for the message, nothing is raised or
\* dispatched and the override stack stays as it is.
C16_ReturnsOnFailedWrite ==
  [][/\ (rootLog.pc = "loop" /\ rootLog'.writes = rootLog.writes + 1 /\ rootLog'.lastN <= 0)
          => /\ rootLog'.pc = "returned"
             /\ rootLog'.accepted = rootLog.accepted
             /\ UNCHANGED <<threadLocalCallback, next, live, stack, uncaught, aborted, last>>
     /\ rootLog.pc = "returned"
          => (rootLog'.writes = rootLog.writes \/ rootLog'.writes = 0)]_vars

C16_Witness ==
  /\ rootLog.pc = "returned" /\ rootLog.lastN = 0 - 1 /\ rootLog.lastBuf = "hello"
  /\ rootLog.accepted = "___" /\ rootLog.writes = 3
  /\ Len(stack[rootLog.thread]) = MaxDepth
  /\ ~uncaught[rootLog.thread] /\ ~aborted

\* C17: the loop of the root's logMessage is left after at most as many write
\* calls as the message has bytes, plus one, whatever the stream returns.
C17_LoopTerminates ==
  /\ [](rootLog.writes <= Len(rootLog.text) + 1)
  /\ (rootLog.pc = "loop") ~> (rootLog.pc = "returned")

C17_Witness ==
  /\ rootLog.pc = "returned"
  /\ Len(rootLog.text) = 8
  /\ rootLog.writes = Len(rootLog.text) + 1

(***************************************************************************)
(* Properties of the per-thread override stacks.                           *)
(***************************************************************************)
\* C12: the override stacks of the threads are independent: a construction or
\* destruction on one thread leaves what getExceptionCallback() returns on
\* every other thread, and that thread's stack, as they were; a thread with no
\* open override gets the shared root.
C12_ThreadsIndependent ==
  /\ [](\A u \in Threads : stack[u] = <<>> => getExceptionCallback(u) = Root)
  /\ [][\A t \in Threads :
          stack'[t] # stack[t] =>
            \A u \in Threads \ {t} :
              /\ getExceptionCallback(u)' = getExceptionCallback(u)
              /\ threadLocalCallback'[u] = threadLocalCallback[u]
              /\ stack'[u] = stack[u]]_vars

C12_Witness ==
  /\ Len(stack["t1"]) = MaxDepth
  /\ stack["t2"] = <<>> /\ threadLocalCallback["t2"] = Null
  /\ last.op = "construct" /\ last.thread = "t1" /\ last.installed
  /\ getExceptionCallback("t2") = Root /\ getExceptionCallback("t1") # Root

\* C19: the current pointer of a thread is unset or refers to a live override
\* or to the root; the next of every live override refers to a live override or
\* to the root; a pointer that has been set is never unset again, so after the
\* first override of a thread is gone the pointer holds the root.
C19_NoDanglingReference ==
  /\ [](/\ \A t \in Threads :
             /\ threadLocalCallback[t] = Null \/ threadLocalCallback[t] \in live
             /\ (stack[t] = <<>> /\ threadLocalCallback[t] # Null)
                  => threadLocalCallback[t] = Root
        /\ \A o \in live \ {Root} : next[o] \in live
        /\ Root \in live => next[Root] = Root)
  /\ [][\A t \in Threads :
          /\ threadLocalCallback[t] # Null => threadLocalCallback'[t] # Null
          /\ (Len(stack[t]) = 1 /\ stack'[t] = <<>>) => threadLocalCallback'[t] = Root]_vars

C19_Witness ==
  /\ last.op = "destroy" /\ stack[last.thread] = <<>>
  /\ threadLocalCallback[last.thread] = Root
  /\ \E u \in Threads : Len(stack[u]) = MaxDepth

(***************************************************************************)
(* Properties of dispatch through the overrides and of the logged text.    *)
(***************************************************************************)
\* C13: a call of onRecoverableException, onFatalException or logMessage on the
\* current callback of a thread with k open delegating overrides runs through
\* the overrides from the innermost to the outermost and then the root, k steps
\* along next; the root's handler acts once, on the arguments of the call.
C13_DelegatesToRootOnce ==
  /\ \A t \in Threads :
       LET path == Delegation(RootExceptionCallback(next), getExceptionCallback(t),
                              NumObj + 1)
       IN  /\ path = Reverse(stack[t]) \o <<Root>>
           /\ Len(path) = Len(stack[t]) + 1
           /\ \A i \in 1..Len(stack[t]) : path[i] # Root
  /\ Root \in live => next[Root] = Root
  /\ last.op \in {"recoverable", "fatal", "log"} =>
       /\ last.entry = getExceptionCallback(last.thread)
       /\ last.visits = Reverse(stack[last.thread]) \o <<Root>>
  /\ last.op \in {"recoverable", "fatal"} =>
       /\ Raised + Logged = 1
       /\ Raised = 1 => last.out.thrown[1] = last.exc
       /\ Logged = 1 =>
            /\ last.out.logCalls[1].file = last.exc.file
            /\ last.out.logCalls[1].line = last.exc.line
            /\ last.out.logVisits = last.visits
            /\ Len(last.out.stderr) = 1
  /\ last.op = "log" =>
       last.out.stderr = <<Indent(last.contextDepth) \o last.text>>

C13_Witness ==
  /\ last.op = "log" /\ last.visits = <<2, 1, Root>>
  /\ last.out.stderr = <<"__note">>

\* C18 as stated: the text the root hands to logMessage is the rendering of
\* KJ_STRINGIFY: the context lines, then file:line and the exception's own text.
C18_LogsFullRendering ==
  (last.op \in {"recoverable", "fatal"} /\ Logged = 1 /\ last.exc = excs["original"]) =>
    last.out.logCalls[1].text = StringifyException(contexts, last.exc)

\* C18: the text the root hands to logMessage is the exception's own line without
\* its location: nature, " (temporary)" marker, description and stack trace; the
\* location goes in the file and line arguments, contextDepth is 0, and the
\* context frames are not part of the text.
C18_LogsOwnLineWithoutContext ==
  (last.op \in {"recoverable", "fatal"} /\ Logged = 1) =>
    LET call == last.out.logCalls[1]
        e == last.exc
    IN  /\ call.file = e.file /\ call.line = e.line /\ call.contextDepth = 0
        /\ call.text = NatureText(e.nature)
                         \o (IF e.durability = "TEMPORARY" THEN " (temporary)" ELSE "")
                         \o (IF e.description = "" THEN "" ELSE ": " \o e.description)
                         \o "\nstack: " \o StackTraceText(e)
        /\ call.file \o ":" \o ToString(call.line) \o ": " \o call.text = OwnText(e)
        /\ last.out.stderr = <<call.text>>

C18_Witness ==
  /\ last.op = "recoverable" /\ Logged = 1 /\ last.exc = excs["original"]
  /\ wraps["original"] = <<[file |-> "y.c", line |-> 20, description |-> "while flushing"],
                           [file |-> "x.c", line |-> 7, description |-> ""]>>
  /\ last.out.logCalls[1].text = "error from OS (temporary): disk full\nstack: a ff"
  /\ StringifyException(contexts, last.exc)
       = "x.c:7: context: \ny.c:20: context: while flushing\n"
           \o "x.c:10: error from OS (temporary): disk full\nstack: a ff"

====
